---------------------------- MODULE Spec2Model ----------------------------
(***************************************************************************)
(* Model of mycroft_jarbas_utils/hivemind/clients/speech/stt/__init__.py:  *)
(* the STT engine classes, their construction from the global `conf`       *)
(* mapping, their execute methods and STTFactory.create.                   *)
(*                                                                         *)
(* Python values are modelled as follows.                                  *)
(*   - None is the record None; a str is Str(s) with s the sequence of its *)
(*     characters (one-character strings), so "en-us" is                   *)
(*     Str(<<"e","n","-","u","s">>).                                       *)
(*   - a dict is a function whose DOMAIN is its set of keys; dict.get is   *)
(*     DictGet.                                                            *)
(*   - a call that raises is an outcome record with kind "raise".          *)
(***************************************************************************)
EXTENDS Integers, Sequences, FiniteSets, TLC

VARIABLES conf, engine, result, lang, pc, tmp, arg, sent

vars == <<conf, engine, result, lang, pc, tmp, arg, sent>>
mainVars == <<conf, engine, result>>
threadVars == <<lang, pc, tmp, arg, sent>>

(***************************************************************************)
(* Bounds of the model.                                                    *)
(***************************************************************************)
MaxLangLen == 4
MaxPieces == 5

(***************************************************************************)
(* Python values.                                                          *)
(***************************************************************************)
None == [type |-> "NoneType"]

Str(s) == [type |-> "str", val |-> s]

EmptyDict == [k \in {} |-> 0]

\* bool(v) for None and str: None and "" are falsy.
Truthy(v) == v.type = "str" /\ v.val # <<>>

\* `a or b`
Or(a, b) == IF Truthy(a) THEN a ELSE b

\* d.get(k, default) for a key k that is a Python value; None is never a key
\* of the configuration.
DictGet(d, k, default) ==
    IF k.type = "str" /\ k.val \in DOMAIN d THEN d[k.val] ELSE default

(***************************************************************************)
(* str methods used by the source, over sequences of characters.           *)
(***************************************************************************)
CasePairs ==
    { <<"e", "E">>, <<"n", "N">>, <<"u", "U">>, <<"s", "S">>,
      <<"f", "F">>, <<"r", "R">>, <<"d", "D">>, <<"o", "O">> }

LowerChar(c) ==
    IF \E p \in CasePairs : p[2] = c
    THEN (CHOOSE p \in CasePairs : p[2] = c)[1]
    ELSE c

UpperChar(c) ==
    IF \E p \in CasePairs : p[1] = c
    THEN (CHOOSE p \in CasePairs : p[1] = c)[2]
    ELSE c

\* s.lower()
Lower(s) == [i \in 1..Len(s) |-> LowerChar(s[i])]

\* s.upper()
Upper(s) == [i \in 1..Len(s) |-> UpperChar(s[i])]

\* s.split(sep) for a one-character separator: the list of the parts between
\* the separators, empty parts included.
RECURSIVE SplitFrom(_, _, _, _)
SplitFrom(s, sep, i, cur) ==
    IF i > Len(s) THEN <<cur>>
    ELSE IF s[i] = sep THEN <<cur>> \o SplitFrom(s, sep, i + 1, <<>>)
    ELSE SplitFrom(s, sep, i + 1, Append(cur, s[i]))

Split(s, sep) == SplitFrom(s, sep, 1, <<>>)

\* s.startswith(prefix)
StartsWith(s, prefix) ==
    /\ Len(s) >= Len(prefix)
    /\ SubSeq(s, 1, Len(prefix)) = prefix

(***************************************************************************)
(* STT.init_language                                                       *)
(***************************************************************************)
DefaultLang == <<"e", "n", "-", "U", "S">>

\* init_language without the .upper() of the second part.
init_language_no_upper(config_core) ==
    LET l == DictGet(config_core, Str("lang"), Str(DefaultLang)).val
        langs == Split(l, "-")
    IN  IF Len(langs) = 2
        THEN Lower(langs[1]) \o <<"-">> \o langs[2]
        ELSE l

init_language(config_core) ==
    LET l == DictGet(config_core, Str("lang"), Str(DefaultLang)).val
        langs == Split(l, "-")
    IN  IF Len(langs) = 2
        THEN Lower(langs[1]) \o <<"-">> \o Upper(langs[2])
        ELSE l

(***************************************************************************)
(* The configuration mapping `conf`.  The module's own literal is          *)
(* SourceConf; Confs varies its lang and its stt.module together, and its  *)
(* stt.module and the active module's sub-mapping together.                *)
(***************************************************************************)
KaldiUri == Str(<<"k">>)

DeepSpeechUri == Str(<<"d">>)

OtherUri == Str(<<"u">>)

SourceConf ==
    [lang |-> Str(<<"e", "n", "-", "u", "s">>),
     stt  |-> [module |-> Str("pocketsphinx"),
               deepspeech_server |-> [uri |-> DeepSpeechUri],
               kaldi |-> [uri |-> KaldiUri]]]

NoneText == <<"N", "o", "n", "e">>

TokenText == <<"t", "o", "k">>

\* The lang entries tried: none, the source's, other cases, a one-part and a
\* three-part string, and a non-English locale.
ConfLangs ==
    { <<"e", "n", "-", "u", "s">>, <<"E", "N", "-", "u", "s">>,
      <<"f", "r", "-", "f", "r">>, <<"e", "n">>, <<"d", "e">>,
      <<"e", "n", "-", "u", "s", "-", "f">> }

LangParts == {EmptyDict} \cup {("lang" :> Str(l)) : l \in ConfLangs}

\* The credential.token entries tried: no token key, null, "None", "", a key.
Credentials ==
    {EmptyDict} \cup
    {("token" :> t) : t \in {None, Str(NoneText), Str(<<>>), Str(TokenText)}}

\* The sub-mapping of the active module: absent (NoSub), or a mapping with a
\* uri and possibly a credential.
NoSub == [absent |-> TRUE]

SubConfigs ==
    {NoSub, [uri |-> OtherUri]} \cup
    {[uri |-> OtherUri, credential |-> c] : c \in Credentials}

\* A class object.
Class(name) == [type |-> "class", name |-> name]

CLASSES ==
    [google            |-> Class("GoogleSTT"),
     google_cloud      |-> Class("GoogleCloudSTT"),
     wit               |-> Class("WITSTT"),
     ibm               |-> Class("IBMSTT"),
     kaldi             |-> Class("KaldiSTT"),
     pocketsphinx      |-> Class("PocketSphinxSTT"),
     houndify          |-> Class("HoundifySTT"),
     bing              |-> Class("BingSTT"),
     deepspeech_server |-> Class("DeepSpeechServerSTT")]

ModuleNames == (DOMAIN CLASSES) \cup {"nonexistent"}

SttPart(m, sub) ==
    ("module" :> Str(m)) @@ (IF sub = NoSub THEN EmptyDict ELSE (m :> sub))

Confs ==
    {SourceConf}
    \cup {l @@ ("stt" :> SttPart(m, sub)) :
            l \in LangParts, m \in ModuleNames, sub \in {[uri |-> OtherUri]}}
    \cup {("lang" :> SourceConf.lang) @@ ("stt" :> SttPart(m, sub)) :
            m \in ModuleNames, sub \in SubConfigs}
    \cup {l @@ ("stt" :> EmptyDict) : l \in LangParts}
    \cup LangParts

(***************************************************************************)
(* Construction.  An engine is a record of the attributes the execute      *)
(* methods read: cls, lang, config, credential, recognizer and, for the    *)
(* token classes, token.  (json_credentials, username, password, id and    *)
(* key are set from the credential in the same way and are passed to the   *)
(* provider unchanged; no operation below depends on them.)                *)
(***************************************************************************)
\* speech_recognition.Recognizer()
Recognizer == [kind |-> "Recognizer"]

\* PS_Recognizer(lang) of clients.speech.stt.pocketsphinx_stt: a decoder built
\* for the language lang.
PS_Recognizer(l) == [kind |-> "PS_Recognizer", lang |-> l]

\* STT.__init__
STT_init(cls, config_core) ==
    LET config_stt == DictGet(config_core, Str("stt"), EmptyDict)
        config == DictGet(config_stt, DictGet(config_stt, Str("module"), None),
                          EmptyDict)
    IN  [cls        |-> cls,
         lang       |-> Str(init_language(config_core)),
         config     |-> config,
         credential |-> DictGet(config, Str("credential"), EmptyDict),
         recognizer |-> Recognizer]

\* TokenSTT.__init__ with str(...) around the token, as BasicSTT and KeySTT do
\* for their fields: an absent token becomes the text "None".
TokenSTT_init_cast(cls, config_core) ==
    LET self == STT_init(cls, config_core)
        t == DictGet(self.credential, Str("token"), None)
    IN  ("token" :> (IF t = None THEN Str(NoneText) ELSE t)) @@ self

\* TokenSTT.__init__
TokenSTT_init(cls, config_core) ==
    LET self == STT_init(cls, config_core)
    IN  ("token" :> DictGet(self.credential, Str("token"), None)) @@ self

\* GoogleSTT.__init__
GoogleSTT_init(config_core) ==
    LET self == TokenSTT_init("GoogleSTT", config_core)
    IN  IF self.token = Str(NoneText)
        THEN [self EXCEPT !.token = None]
        ELSE self

\* PocketSphinxSTT.__init__
PocketSphinxSTT_init(config_core) ==
    LET self == STT_init("PocketSphinxSTT", config_core)
    IN  [self EXCEPT !.recognizer = PS_Recognizer(self.lang)]

TokenClasses == {"GoogleSTT", "WITSTT", "BingSTT"}

\* clazz(): the constructor of each registered class.
New(cls, config_core) ==
    CASE cls = "GoogleSTT" -> GoogleSTT_init(config_core)
      [] cls \in {"WITSTT", "BingSTT"} -> TokenSTT_init(cls, config_core)
      [] cls = "PocketSphinxSTT" -> PocketSphinxSTT_init(config_core)
      [] OTHER -> STT_init(cls, config_core)

(***************************************************************************)
(* The outcome of the last operation: what it was called with, what the    *)
(* provider did (env), whether it returned or raised, the value or the     *)
(* exception, the provider requests it made (in order), and whether a      *)
(* parse failure was caught inside it.                                     *)
(***************************************************************************)
NoResult == [op |-> "none"]

NoEnv == [post |-> "none"]

Returned(op, cls, language, env, value, requests, caught) ==
    [op |-> op, cls |-> cls, language |-> language, env |-> env,
     kind |-> "return", value |-> value, requests |-> requests,
     caught |-> caught]

Raised(op, cls, language, env, err, requests) ==
    [op |-> op, cls |-> cls, language |-> language, env |-> env,
     kind |-> "raise", err |-> err, requests |-> requests, caught |-> FALSE]

(***************************************************************************)
(* STTFactory.create                                                       *)
(***************************************************************************)
\* What create() does: the instance it returns, or the exception of calling
\* None when CLASSES.get(module) found nothing.
CreateOutcome(config_core) ==
    LET config == DictGet(config_core, Str("stt"), EmptyDict)
        module == DictGet(config, Str("module"), Str("google"))
        clazz  == DictGet(CLASSES, module, None)
    IN  IF clazz = None
        THEN [raised |-> TRUE, err |-> "TypeError"]
        ELSE [raised |-> FALSE, value |-> New(clazz.name, config_core)]

Create ==
    /\ engine = None
    /\ result = [op |-> "none"]
    /\ LET out == CreateOutcome(conf)
       IN  IF out.raised
           THEN /\ engine' = engine
                /\ result' = Raised("create", "STTFactory", None, NoEnv, out.err, <<>>)
           ELSE /\ engine' = out.value
                /\ result' = Returned("create", "STTFactory", None, NoEnv,
                                      None, <<>>, FALSE)
    /\ UNCHANGED <<conf, threadVars>>

(***************************************************************************)
(* re.sub(r'\s*\[noise\]\s*', '', s): the leftmost non-overlapping matches *)
(* of optional whitespace, the literal marker, optional whitespace are     *)
(* removed.  Whitespace cannot start the marker, so the greedy \s* never   *)
(* backtracks: a match at i skips all whitespace from i, needs the marker  *)
(* right there, and then takes all whitespace after it.                    *)
(***************************************************************************)
Noise == <<"[", "n", "o", "i", "s", "e", "]">>

IsSpace(c) == c \in {" ", "\t", "\n", "\r", "\f"}

RECURSIVE SkipSpaces(_, _)
SkipSpaces(s, i) ==
    IF i <= Len(s) /\ IsSpace(s[i]) THEN SkipSpaces(s, i + 1) ELSE i

\* The index just past the match that starts at i, or 0 when none starts there.
MatchEnd(s, i) ==
    LET j == SkipSpaces(s, i)
    IN  IF j + Len(Noise) - 1 <= Len(s) /\ SubSeq(s, j, j + Len(Noise) - 1) = Noise
        THEN SkipSpaces(s, j + Len(Noise))
        ELSE 0

RECURSIVE SubNoiseFrom(_, _)
SubNoiseFrom(s, i) ==
    IF i > Len(s) THEN <<>>
    ELSE LET e == MatchEnd(s, i)
         IN  IF e # 0
             THEN SubNoiseFrom(s, e)
             ELSE <<s[i]>> \o SubNoiseFrom(s, i + 1)

SubNoise(s) == SubNoiseFrom(s, 1)

(***************************************************************************)
(* A decoded JSON document: a dict, a list, a str or None (null).  An      *)
(* operation on one either gives a value or raises.                        *)
(***************************************************************************)
JDict(f) == [type |-> "dict", items |-> f]

JList(q) == [type |-> "list", items |-> q]

Ok(v) == [raised |-> FALSE, value |-> v]

Exc(e) == [raised |-> TRUE, err |-> e]

\* v[k] for a str key k
GetKey(v, k) ==
    IF v.type = "dict"
    THEN IF k \in DOMAIN v.items THEN Ok(v.items[k]) ELSE Exc("KeyError")
    ELSE Exc("TypeError")

\* v[0]
GetFirst(v) ==
    CASE v.type = "list" ->
            IF Len(v.items) > 0 THEN Ok(v.items[1]) ELSE Exc("IndexError")
      [] v.type = "str" ->
            IF Len(v.val) > 0 THEN Ok(Str(<<v.val[1]>>)) ELSE Exc("IndexError")
      [] v.type = "dict" -> Exc("KeyError")
      [] OTHER -> Exc("TypeError")

\* re.sub(r'\s*\[noise\]\s*', '', v)
ReSubNoise(v) ==
    IF v.type = "str" THEN Ok(Str(SubNoise(v.val))) ELSE Exc("TypeError")

\* response.json(): the document, or ValueError for a body that is not JSON.
ResponseJson(response) ==
    IF response.is_json THEN Ok(response.doc) ELSE Exc("ValueError")

\* The body of the try block of KaldiSTT.get_response.
GetResponseTry(response) ==
    LET doc == ResponseJson(response)
    IN  IF doc.raised THEN doc
        ELSE LET hypotheses == GetKey(doc.value, "hypotheses")
             IN  IF hypotheses.raised THEN hypotheses
                 ELSE LET first == GetFirst(hypotheses.value)
                      IN  IF first.raised THEN first
                          ELSE LET utterance == GetKey(first.value, "utterance")
                               IN  IF utterance.raised THEN utterance
                                   ELSE ReSubNoise(utterance.value)

\* get_response with `except KeyError:` in place of the bare except.
get_response_keyerror_only(response) ==
    LET r == GetResponseTry(response)
    IN  IF r.raised
        THEN IF r.err = "KeyError"
             THEN [raised |-> FALSE, value |-> None, caught |-> TRUE]
             ELSE [raised |-> TRUE, err |-> r.err, caught |-> FALSE]
        ELSE [raised |-> FALSE, value |-> r.value, caught |-> FALSE]

\* KaldiSTT.get_response: the bare except turns every exception into None.
get_response(response) ==
    LET r == GetResponseTry(response)
    IN  IF r.raised
        THEN [raised |-> FALSE, value |-> None, caught |-> TRUE]
        ELSE [raised |-> FALSE, value |-> r.value, caught |-> FALSE]

(***************************************************************************)
(* The response bodies a Kaldi server is given to answer with.             *)
(***************************************************************************)
Pieces == {<<"a">>, <<" ">>, Noise, <<"[">>}

\* The concatenations of at most n pieces.
RECURSIVE PieceStrings(_)
PieceStrings(n) ==
    IF n = 0 THEN {<<>>}
    ELSE LET shorter == PieceStrings(n - 1)
         IN  shorter \cup {p \o t : p \in Pieces, t \in shorter}

Utterances == PieceStrings(MaxPieces)

Hypothesis(u) == JDict([utterance |-> u])

NotJson == [is_json |-> FALSE]

JsonBody(doc) == [is_json |-> TRUE, doc |-> doc]

\* Bodies that are not the expected document.
MalformedResponses ==
    {NotJson}
    \cup {JsonBody(d) :
            d \in {None, JList(<<>>), JDict(EmptyDict),
                   JDict([hypotheses |-> None]),
                   JDict([hypotheses |-> JList(<<>>)]),
                   JDict([hypotheses |-> JDict(EmptyDict)]),
                   JDict([hypotheses |-> Str(<<"a">>)]),
                   JDict([hypotheses |-> JList(<<JDict(EmptyDict)>>)]),
                   JDict([hypotheses |-> JList(<<Hypothesis(None)>>)])}}

\* Bodies {"hypotheses": [{"utterance": u}, ...]} with one or two hypotheses.
WellFormedResponses ==
    {JsonBody(JDict([hypotheses |-> JList(<<Hypothesis(Str(u))>>)])) :
        u \in Utterances}
    \cup {JsonBody(JDict([hypotheses |->
                JList(<<Hypothesis(Str(u)), Hypothesis(Str(<<"a">>))>>)])) :
        u \in {<<>>, Noise, <<"a", " ">> \o Noise}}

KaldiResponses == MalformedResponses \cup WellFormedResponses

(***************************************************************************)
(* The collaborators of execute.  A provider call of the speech_recognition*)
(* Recognizer (and the decode of the PocketSphinx recognizer) returns the  *)
(* text, or raises RequestError (the request failed) or UnknownValueError  *)
(* (the answer could not be understood).  requests.post raises             *)
(* MissingSchema for a url of None before anything is sent, raises         *)
(* ConnectionError when the transport fails, and otherwise returns the     *)
(* response.                                                               *)
(***************************************************************************)
Text == <<"h", "i">>

\* What a provider does with a call.
Provider(out) == [call |-> out]

ProviderOutcomes == {Provider("ok"), Provider("fail"), Provider("unparsable")}

\* The result of execute when it ends with the provider call `request`.
ProviderResult(cls, language, request, out) ==
    CASE out.call = "ok" ->
            Returned("execute", cls, language, out, Str(Text), <<request>>,
                     FALSE)
      [] out.call = "fail" ->
            Raised("execute", cls, language, out, "RequestError", <<request>>)
      [] OTHER ->
            Raised("execute", cls, language, out, "UnknownValueError",
                   <<request>>)

\* What the network does with a POST: it fails, or answers with a response.
PostFails == [post |-> "fail"]

PostAnswers(response) == [post |-> "ok", response |-> response]

\* post(uri, data=...)
Post(uri, net) ==
    IF uri = None
    THEN [requests |-> <<>>, raised |-> TRUE, err |-> "MissingSchema"]
    ELSE LET request == [api |-> "post", uri |-> uri]
         IN  IF net.post = "fail"
             THEN [requests |-> <<request>>, raised |-> TRUE,
                   err |-> "ConnectionError"]
             ELSE [requests |-> <<request>>, raised |-> FALSE,
                   response |-> net.response]

\* The language arguments execute is called with: omitted (None), "", and
\* locale strings.
EnUS == <<"e", "n", "-", "U", "S">>

FrFR == <<"f", "r", "-", "F", "R">>

Overrides == {None, Str(<<>>), Str(EnUS), Str(FrFR), Str(<<"e">>)}

\* The plain-text bodies a DeepSpeech server answers with.
DeepSpeechBodies == {Str(Text), Str(<<>>), Str(<<"{">>)}

(***************************************************************************)
(* The execute methods.  Each takes the engine (self), the language        *)
(* argument and what the provider does, and gives the engine afterwards    *)
(* and the result of the call.                                             *)
(***************************************************************************)
\* GoogleSTT.execute with the resolved language kept in a local variable and
\* not assigned to self.lang.
GoogleSTT_execute_local(self, language, out) ==
    LET request == [api |-> "recognize_google", key |-> self.token,
                    language |-> Or(language, self.lang)]
    IN  [self |-> self,
         result |-> ProviderResult(self.cls, language, request, out)]

\* GoogleSTT.execute
GoogleSTT_execute(self, language, out) ==
    LET self1 == [self EXCEPT !.lang = Or(language, self.lang)]
        request == [api |-> "recognize_google", key |-> self1.token,
                    language |-> self1.lang]
    IN  [self |-> self1,
         result |-> ProviderResult(self.cls, language, request, out)]

\* GoogleCloudSTT.execute
GoogleCloudSTT_execute(self, language, out) ==
    LET self1 == [self EXCEPT !.lang = Or(language, self.lang)]
        request == [api |-> "recognize_google_cloud", language |-> self1.lang]
    IN  [self |-> self1,
         result |-> ProviderResult(self.cls, language, request, out)]

\* WITSTT.execute
WITSTT_execute(self, language, out) ==
    LET request == [api |-> "recognize_wit", key |-> self.token]
    IN  [self |-> self,
         result |-> ProviderResult(self.cls, language, request, out)]

\* IBMSTT.execute
IBMSTT_execute(self, language, out) ==
    LET self1 == [self EXCEPT !.lang = Or(language, self.lang)]
        request == [api |-> "recognize_ibm", language |-> self1.lang]
    IN  [self |-> self1,
         result |-> ProviderResult(self.cls, language, request, out)]

\* BingSTT.execute
BingSTT_execute(self, language, out) ==
    LET self1 == [self EXCEPT !.lang = Or(language, self.lang)]
        request == [api |-> "recognize_bing", key |-> self1.token,
                    language |-> self1.lang]
    IN  [self |-> self1,
         result |-> ProviderResult(self.cls, language, request, out)]

\* HoundifySTT.execute
HoundifySTT_execute(self, language, out) ==
    LET self1 == [self EXCEPT !.lang = Or(language, self.lang)]
        request == [api |-> "recognize_houndify"]
    IN  [self |-> self1,
         result |-> ProviderResult(self.cls, language, request, out)]

\* DeepSpeechServerSTT.execute testing self.lang in place of the resolved
\* language.
DeepSpeechServerSTT_execute_checks_default(self, language, net) ==
    IF ~StartsWith(self.lang.val, <<"e", "n">>)
    THEN [self |-> self,
          result |-> Raised("execute", self.cls, language, net,
                            "ValueError", <<>>)]
    ELSE LET p == Post(DictGet(self.config, Str("uri"), None), net)
         IN  [self |-> self,
              result |->
                 IF p.raised
                 THEN Raised("execute", self.cls, language, net, p.err,
                             p.requests)
                 ELSE Returned("execute", self.cls, language, net,
                               p.response, p.requests, FALSE)]

\* DeepSpeechServerSTT.execute
DeepSpeechServerSTT_execute(self, language, net) ==
    LET language1 == Or(language, self.lang)
    IN  IF ~StartsWith(language1.val, <<"e", "n">>)
        THEN [self |-> self,
              result |-> Raised("execute", self.cls, language, net,
                                "ValueError", <<>>)]
        ELSE LET p == Post(DictGet(self.config, Str("uri"), None), net)
             IN  [self |-> self,
                  result |->
                     IF p.raised
                     THEN Raised("execute", self.cls, language, net, p.err,
                                 p.requests)
                     ELSE Returned("execute", self.cls, language, net,
                                   p.response, p.requests, FALSE)]

\* KaldiSTT.execute with the post inside the try block of get_response: a
\* transport failure is caught too and None is returned.
KaldiSTT_execute_catches_post(self, language, net) ==
    LET p == Post(DictGet(self.config, Str("uri"), None), net)
    IN  IF p.raised
        THEN [self |-> self,
              result |-> Returned("execute", self.cls, language, net, None,
                                  p.requests, TRUE)]
        ELSE LET r == get_response(p.response)
             IN  [self |-> self,
                  result |-> Returned("execute", self.cls, language, net,
                                      r.value, p.requests, r.caught)]

\* KaldiSTT.execute
KaldiSTT_execute(self, language, net) ==
    LET language1 == Or(language, self.lang)
        p == Post(DictGet(self.config, Str("uri"), None), net)
    IN  IF p.raised
        THEN [self |-> self,
              result |-> Raised("execute", self.cls, language, net, p.err,
                                p.requests)]
        ELSE LET r == get_response(p.response)
             IN  [self |-> self,
                  result |->
                     IF r.raised
                     THEN Raised("execute", self.cls, language, net, r.err,
                                 p.requests)
                     ELSE Returned("execute", self.cls, language, net,
                                   r.value, p.requests, r.caught)]

\* PocketSphinxSTT.execute that stores the new language and keeps the decoder
\* it has.
PocketSphinxSTT_execute_no_rebuild(self, language, out) ==
    LET language1 == Or(language, self.lang)
        self1 == [self EXCEPT !.lang = language1]
        request == [api |-> "PS_Recognizer.recognize",
                    decoder |-> self1.recognizer.lang]
    IN  [self |-> self1,
         result |-> ("built" :> <<>>)
                    @@ ProviderResult(self.cls, language, request, out)]

\* PocketSphinxSTT.execute; `built` lists the decoders built during the call.
PocketSphinxSTT_execute(self, language, out) ==
    LET language1 == Or(language, self.lang)
        self1 == IF language1 # self.lang
                 THEN [self EXCEPT !.lang = language1,
                                   !.recognizer = PS_Recognizer(language1)]
                 ELSE self
        built == IF language1 # self.lang THEN <<language1>> ELSE <<>>
        request == [api |-> "PS_Recognizer.recognize",
                    decoder |-> self1.recognizer.lang]
    IN  [self |-> self1,
         result |-> ("built" :> built)
                    @@ ProviderResult(self.cls, language, request, out)]

(***************************************************************************)
(* The engine of a process: conf is set, STTFactory.create() builds the    *)
(* engine, and execute is called on it any number of times.                *)
(***************************************************************************)
Idle ==
    /\ lang = <<>>
    /\ pc = <<>>
    /\ tmp = <<>>
    /\ arg = <<>>
    /\ sent = <<>>

Init ==
    /\ conf \in Confs
    /\ engine = None
    /\ result = NoResult
    /\ Idle

\* The caller has taken the outcome of its previous call.
Taken == result = NoResult

\* The engine is an instance of cls and no call on it is in progress.
Created(cls) == engine # None /\ engine.cls = cls /\ Taken

\* execute on an engine instance ends with the outcome r.
Becomes(r) ==
    /\ engine' = r.self
    /\ result' = r.result
    /\ UNCHANGED <<conf, threadVars>>

ExecuteGoogle ==
    /\ Created("GoogleSTT")
    /\ \E language \in Overrides, out \in ProviderOutcomes :
          Becomes(GoogleSTT_execute(engine, language, out))

ExecuteGoogleCloud ==
    /\ Created("GoogleCloudSTT")
    /\ \E language \in Overrides, out \in ProviderOutcomes :
          Becomes(GoogleCloudSTT_execute(engine, language, out))

ExecuteWIT ==
    /\ Created("WITSTT")
    /\ \E language \in Overrides, out \in ProviderOutcomes :
          Becomes(WITSTT_execute(engine, language, out))

ExecuteIBM ==
    /\ Created("IBMSTT")
    /\ \E language \in Overrides, out \in ProviderOutcomes :
          Becomes(IBMSTT_execute(engine, language, out))

ExecuteBing ==
    /\ Created("BingSTT")
    /\ \E language \in Overrides, out \in ProviderOutcomes :
          Becomes(BingSTT_execute(engine, language, out))

ExecuteHoundify ==
    /\ Created("HoundifySTT")
    /\ \E language \in Overrides, out \in ProviderOutcomes :
          Becomes(HoundifySTT_execute(engine, language, out))

ExecuteDeepSpeech ==
    /\ Created("DeepSpeechServerSTT")
    /\ \E language \in Overrides,
          net \in {PostFails} \cup {PostAnswers(b) : b \in DeepSpeechBodies} :
          Becomes(DeepSpeechServerSTT_execute(engine, language, net))

ExecuteKaldi ==
    /\ Created("KaldiSTT")
    /\ \E language \in Overrides,
          net \in {PostFails} \cup {PostAnswers(b) : b \in KaldiResponses} :
          Becomes(KaldiSTT_execute(engine, language, net))

ExecutePocketSphinx ==
    /\ Created("PocketSphinxSTT")
    /\ \E language \in Overrides, out \in ProviderOutcomes :
          Becomes(PocketSphinxSTT_execute(engine, language, out))

\* The caller takes the outcome of the call it made.
TakeResult ==
    /\ engine # None
    /\ result # NoResult
    /\ result' = NoResult
    /\ UNCHANGED <<conf, engine, threadVars>>

Next ==
    \/ Create
    \/ TakeResult
    \/ ExecuteGoogle
    \/ ExecuteGoogleCloud
    \/ ExecuteWIT
    \/ ExecuteIBM
    \/ ExecuteBing
    \/ ExecuteHoundify
    \/ ExecuteDeepSpeech
    \/ ExecuteKaldi
    \/ ExecutePocketSphinx

Spec == Init /\ [][Next]_vars

(***************************************************************************)
(* init_language on its own: every lang entry of at most MaxLangLen        *)
(* characters over LangAlphabet, and a configuration without the key.      *)
(***************************************************************************)
LangAlphabet == {"e", "N", "-", "1"}

RECURSIVE StringsUpTo(_)
StringsUpTo(n) ==
    IF n = 0 THEN {<<>>}
    ELSE LET shorter == StringsUpTo(n - 1)
         IN  shorter \cup {<<c>> \o t : c \in LangAlphabet, t \in shorter}

LangConfs ==
    {EmptyDict} \cup {("lang" :> Str(l)) : l \in StringsUpTo(MaxLangLen)}

InitLang ==
    /\ conf \in LangConfs
    /\ engine = None
    /\ result = NoResult
    /\ Idle

CallInitLanguage ==
    /\ result = NoResult
    /\ result' = Returned("init_language", "STT", None, NoEnv,
                          Str(init_language(conf)), <<>>, FALSE)
    /\ UNCHANGED <<conf, engine, threadVars>>

NextLang == CallInitLanguage

SpecLang == InitLang /\ [][NextLang]_vars

(***************************************************************************)
(* Threads calling execute on engine instances they share.  execute of a   *)
(* storing class (GoogleSTT, BingSTT, ...) is the statement                *)
(*     self.lang = language or self.lang                                   *)
(* followed by a provider call whose argument list reads self.lang again.  *)
(* A thread can be switched out between any two of its steps: evaluating   *)
(* `language or self.lang`, storing it to self.lang, loading self.lang for *)
(* the call, and making the call.  Threads 1 and 2 share instance 1 (a     *)
(* GoogleSTT), thread 3 has instance 2 (a BingSTT) to itself.              *)
(***************************************************************************)
Threads == {1, 2, 3}

Instances == {1, 2}

InstanceOf == <<1, 1, 2>>

InstanceClass == <<"GoogleSTT", "BingSTT">>

DeDE == <<"d", "e", "-", "D", "E">>

\* The language arguments each thread calls execute with.
ThreadOverrides ==
    <<{None, Str(EnUS), Str(FrFR)}, {None, Str(EnUS), Str(FrFR)},
      {None, Str(DeDE)}>>

ThreadConfs == {SourceConf, [stt |-> SourceConf.stt]}

NoFrame == [language |-> None, top |-> None]

\* self.lang = v on one instance, were lang an attribute of the class that
\* all instances share.
StoreLang_shared(l, i, v) == [j \in DOMAIN l |-> v]

\* self.lang = v on instance i
StoreLang(l, i, v) == [l EXCEPT ![i] = v]

InitThreads ==
    /\ conf \in ThreadConfs
    /\ engine = None
    /\ result = NoResult
    /\ lang = [i \in Instances |-> New(InstanceClass[i], conf).lang]
    /\ pc = [t \in Threads |-> "idle"]
    /\ tmp = [t \in Threads |-> NoFrame]
    /\ arg = [t \in Threads |-> None]
    /\ sent = [t \in Threads |-> None]

\* Thread t enters execute(audio, language).
ThreadCall(t) ==
    /\ pc[t] = "idle"
    /\ \E language \in ThreadOverrides[t] :
          tmp' = [tmp EXCEPT ![t] = [language |-> language, top |-> None]]
    /\ pc' = [pc EXCEPT ![t] = "or"]
    /\ sent' = [sent EXCEPT ![t] = None]
    /\ UNCHANGED <<mainVars, lang, arg>>

\* language or self.lang
ThreadOr(t) ==
    /\ pc[t] = "or"
    /\ tmp' = [tmp EXCEPT ![t].top = Or(tmp[t].language, lang[InstanceOf[t]])]
    /\ pc' = [pc EXCEPT ![t] = "store"]
    /\ UNCHANGED <<mainVars, lang, arg, sent>>

\* self.lang = <the value just computed>
ThreadStore(t) ==
    /\ pc[t] = "store"
    /\ lang' = StoreLang(lang, InstanceOf[t], tmp[t].top)
    /\ pc' = [pc EXCEPT ![t] = "load"]
    /\ UNCHANGED <<mainVars, tmp, arg, sent>>

\* the argument self.lang of the provider call is read
ThreadLoad(t) ==
    /\ pc[t] = "load"
    /\ arg' = [arg EXCEPT ![t] = lang[InstanceOf[t]]]
    /\ pc' = [pc EXCEPT ![t] = "call"]
    /\ UNCHANGED <<mainVars, lang, tmp, sent>>

\* the provider call is made and execute returns; sent[t] is the request of
\* the thread's last completed call, with the language it was called with.
ThreadRequest(t) ==
    /\ pc[t] = "call"
    /\ sent' = [sent EXCEPT ![t] = [language |-> arg[t],
                                    override |-> tmp[t].language]]
    /\ pc' = [pc EXCEPT ![t] = "idle"]
    /\ tmp' = [tmp EXCEPT ![t] = NoFrame]
    /\ arg' = [arg EXCEPT ![t] = None]
    /\ UNCHANGED <<mainVars, lang>>

NextThreads ==
    \E t \in Threads :
        \/ ThreadCall(t)
        \/ ThreadOr(t)
        \/ ThreadStore(t)
        \/ ThreadLoad(t)
        \/ ThreadRequest(t)

SpecThreads == InitThreads /\ [][NextThreads]_vars

(***************************************************************************)
(*                          Properties                                     *)
(***************************************************************************)
\* The last operation was execute on an instance of cls.
Executed(cls) == result.op = "execute" /\ result.cls = cls

\* config.stt.module as the factory reads it.
RequestedModule ==
    DictGet(DictGet(conf, Str("stt"), EmptyDict), Str("module"), Str("google"))

\* C1: STTFactory.create() with a module name that is not in the registry
\* raises a ConfigurationError: it returns no engine and fails with no other
\* error.
C1_UnknownModuleRaisesConfigurationError ==
    (result.op = "create" /\ RequestedModule.val \notin DOMAIN CLASSES)
        => /\ result.kind = "raise"
           /\ result.err = "ConfigurationError"
           /\ engine = None

(***************************************************************************)
(* C2.                                                                     *)
(***************************************************************************)
\* The whitespace-separated words of s.
Words(s) == SelectSeq(Split(s, " "), LAMBDA w : w # <<>>)

\* Every "[" of s belongs to a marker that stands as a word of its own.
MarkersAreWords(s) ==
    \A i \in 1..Len(Words(s)) :
        ("[" \in {Words(s)[i][k] : k \in 1..Len(Words(s)[i])})
            => Words(s)[i] = Noise

\* The body {"hypotheses": [{"utterance": u}, ...]} the server answered with
\* has a first utterance that is a string.
AnsweredUtterance ==
    /\ Executed("KaldiSTT")
    /\ result.env.post = "ok"
    /\ result.requests # <<>>
    /\ result.env.response \in WellFormedResponses

FirstUtterance == result.env.response.doc.items.hypotheses.items[1].items.utterance.val

\* C2: for a response {"hypotheses":[{"utterance": u}, ...]} KaldiSTT.execute
\* returns u without its [noise] markers and the whitespace around them, the
\* words on either side of a marker staying separated ("hello [noise] world"
\* gives "hello world").
C2_NoiseRemovedWordsStaySeparated ==
    (AnsweredUtterance /\ MarkersAreWords(FirstUtterance))
        => /\ result.kind = "return"
           /\ result.value.type = "str"
           /\ Words(result.value.val)
                = SelectSeq(Words(FirstUtterance), LAMBDA w : w # Noise)

(***************************************************************************)
(* C3.                                                                     *)
(***************************************************************************)
\* The response is JSON of the shape {"hypotheses": [{"utterance": <str>},
\* ...]}.
ExpectedShape(response) ==
    /\ response.is_json
    /\ response.doc.type = "dict"
    /\ "hypotheses" \in DOMAIN response.doc.items
    /\ LET h == response.doc.items.hypotheses
       IN  /\ h.type = "list"
           /\ Len(h.items) > 0
           /\ h.items[1].type = "dict"
           /\ "utterance" \in DOMAIN h.items[1].items
           /\ h.items[1].items.utterance.type = "str"

KaldiAnswered ==
    /\ Executed("KaldiSTT")
    /\ result.env.post = "ok"
    /\ result.requests # <<>>

\* C3: KaldiSTT.execute returns None, and does not raise, whenever the body
\* of the response is not JSON or not of the expected shape (no hypotheses
\* key, an empty hypotheses array, a first hypothesis without utterance); no
\* other backend catches a parse failure: there it reaches the caller.
C3_KaldiMalformedResponseGivesNone ==
    /\ (KaldiAnswered /\ ~ExpectedShape(result.env.response))
          => /\ result.kind = "return"
             /\ result.value = None
             /\ result.caught
    /\ (result.op = "execute" /\ result.caught) => result.cls = "KaldiSTT"
    /\ (/\ result.op = "execute"
        /\ result.cls \notin {"KaldiSTT", "DeepSpeechServerSTT"}
        /\ result.env.call = "unparsable")
          => /\ result.kind = "raise"
             /\ result.err = "UnknownValueError"

C3_NotJsonAnswered ==
    /\ KaldiAnswered
    /\ result.env.response = NotJson
    /\ result.kind = "return"
    /\ result.value = None

(***************************************************************************)
(* C4.                                                                     *)
(***************************************************************************)
\* The language a call resolves to: its argument unless that is omitted or
\* empty, else the instance's stored language d.
Resolved(language, d) ==
    IF language \in {None, Str(<<>>)} THEN d ELSE language

English(l) == Len(l.val) >= 2 /\ l.val[1] = "e" /\ l.val[2] = "n"

UriConfigured == "uri" \in DOMAIN engine.config

\* C4: DeepSpeechServerSTT.execute raises its language error (ValueError,
\* "Deepspeech is currently english only") exactly when the resolved language
\* does not start with "en", and then no POST has been issued; for a resolved
\* language that starts with "en" it issues the POST to the configured uri.
\* (execute never changes the stored language of this class, so engine.lang
\* is the stored language the call saw.)
C4_DeepSpeechEnglishOnly ==
    Executed("DeepSpeechServerSTT")
        => LET l == Resolved(result.language, engine.lang)
           IN  /\ (result.kind = "raise" /\ result.err = "ValueError")
                     <=> ~English(l)
               /\ ~English(l) => result.requests = <<>>
               /\ (English(l) /\ UriConfigured)
                     => result.requests
                          = <<[api |-> "post", uri |-> engine.config.uri]>>

C4_FrenchRejected ==
    /\ Executed("DeepSpeechServerSTT")
    /\ result.language = Str(FrFR)
    /\ engine.lang = Str(EnUS)
    /\ result.kind = "raise"
    /\ result.err = "ValueError"
    /\ result.requests = <<>>

(***************************************************************************)
(* C5.                                                                     *)
(***************************************************************************)
\* The classes whose execute assigns self.lang.
StoringClasses ==
    {"GoogleSTT", "GoogleCloudSTT", "IBMSTT", "BingSTT", "HoundifySTT",
     "PocketSphinxSTT"}

\* The classes whose execute never assigns self.lang.
NonStoringClasses == {"WITSTT", "KaldiSTT", "DeepSpeechServerSTT"}

\* C5 as stated: for every backend, after execute with a non-empty language
\* L the stored language of the engine is L.
C5_OverrideStoredByEveryBackend ==
    (result.op = "execute" /\ Truthy(result.language))
        => engine.lang = result.language

C5_AfterCall ==
    result.op = "execute"
        => /\ (result.cls \in StoringClasses /\ Truthy(result.language))
                 => engine.lang = result.language
           /\ result.cls \in NonStoringClasses
                 => engine.lang = Str(init_language(conf))

C5_LaterCall ==
    (/\ result' # result
     /\ result'.op = "execute"
     /\ result'.cls \in StoringClasses
     /\ ~Truthy(result'.language))
        => /\ engine'.lang = engine.lang
           /\ "language" \in DOMAIN result'.requests[1]
                 => result'.requests[1].language = engine.lang

\* C5 amended: for the backends whose execute assigns self.lang (Google,
\* Google Cloud, IBM, Bing, Houndify, PocketSphinx), after execute with a
\* non-empty language L the stored language is L, whether the provider call
\* returned or raised, and a later execute without a language keeps it and
\* sends it to the provider; WIT, Kaldi and DeepSpeech keep the language
\* they were constructed with.
C5_OverrideStoredByStoringBackends ==
    []C5_AfterCall /\ [][C5_LaterCall]_vars

\* A call without a language went out with a language that an earlier call
\* had stored.
C5_StoredOverrideUsedLater ==
    /\ Executed("GoogleSTT")
    /\ result.language = None
    /\ init_language(conf) = EnUS
    /\ engine.lang = Str(FrFR)
    /\ result.requests[1].language = Str(FrFR)

(***************************************************************************)
(* C6.                                                                     *)
(***************************************************************************)
\* The token entry of the active module's credential, None when there is
\* none.
ConfiguredToken ==
    LET stt == DictGet(conf, Str("stt"), EmptyDict)
        sub == DictGet(stt, DictGet(stt, Str("module"), None), EmptyDict)
    IN  DictGet(DictGet(sub, Str("credential"), EmptyDict), Str("token"), None)

TokenEngineCreated == engine # None /\ engine.cls \in TokenClasses

\* C6 as stated: a token engine is constructed without raising, and its
\* stored token is the absent value whenever the configured token is absent,
\* "None" or "".
C6_TokenAbsentForNoneAndEmpty ==
    /\ (result.op = "create"
        /\ RequestedModule.val \in {"google", "wit", "bing"})
          => result.kind = "return"
    /\ (TokenEngineCreated
        /\ ConfiguredToken \in {None, Str(NoneText), Str(<<>>)})
          => engine.token = None

\* C6 amended: a token engine is constructed without raising; its stored
\* token is the absent value when the credential has no token (or a null
\* one), and for Google also when the token is the string "None"; every
\* other configured token is stored unchanged: "" stays "" for all three
\* and "None" stays "None" for WIT and Bing.
C6_TokenStoredAsConfigured ==
    /\ (result.op = "create"
        /\ RequestedModule.val \in {"google", "wit", "bing"})
          => result.kind = "return" /\ TokenEngineCreated
    /\ TokenEngineCreated
          => engine.token =
                IF engine.cls = "GoogleSTT" /\ ConfiguredToken = Str(NoneText)
                THEN None
                ELSE ConfiguredToken

C6_BingWithoutToken ==
    /\ TokenEngineCreated
    /\ engine.cls = "BingSTT"
    /\ "token" \notin DOMAIN engine.credential
    /\ engine.token = None

(***************************************************************************)
(* C7.                                                                     *)
(***************************************************************************)
\* The lang entry init_language reads: the configured one, or "en-US".
LangEntry == IF "lang" \in DOMAIN conf THEN conf.lang.val ELSE EnUS

Dashes(s) == {i \in 1..Len(s) : s[i] = "-"}

\* C7: init_language turns a lang entry with exactly one "-" into the part
\* before it lowercased, "-", and the part after it uppercased, returns every
\* other entry unchanged, and reads "en-US" when there is no lang key.
C7_InitLanguageNormalises ==
    result.op = "init_language"
        => LET in == LangEntry
               out == result.value.val
           IN  IF Cardinality(Dashes(in)) = 1
               THEN LET d == CHOOSE i \in Dashes(in) : TRUE
                    IN  /\ Len(out) = Len(in)
                        /\ \A i \in 1..Len(in) :
                              out[i] = IF i < d THEN LowerChar(in[i])
                                       ELSE IF i = d THEN "-"
                                       ELSE UpperChar(in[i])
               ELSE out = in

C7_MixedCaseNormalised ==
    /\ result.op = "init_language"
    /\ LangEntry = <<"N", "-", "e">>
    /\ result.value.val = <<"n", "-", "E">>

(***************************************************************************)
(* C8.                                                                     *)
(***************************************************************************)
C8_DecoderFollowsLanguage ==
    (engine # None /\ engine.cls = "PocketSphinxSTT")
        => /\ engine.recognizer.kind = "PS_Recognizer"
           /\ engine.recognizer.lang = engine.lang

C8_RebuildExactlyOnChange ==
    (/\ result' # result
     /\ result'.op = "execute"
     /\ result'.cls = "PocketSphinxSTT")
        => LET l == Resolved(result'.language, engine.lang)
           IN  /\ l # engine.lang
                     => /\ result'.built = <<l>>
                        /\ engine'.lang = l
                        /\ engine'.recognizer = PS_Recognizer(l)
               /\ l = engine.lang
                     => /\ result'.built = <<>>
                        /\ engine' = engine
               /\ result'.requests
                     = <<[api |-> "PS_Recognizer.recognize", decoder |-> l]>>

C9_InstancesIsolated ==
    [][\A i \in Instances :
          lang'[i] # lang[i]
             => \E t \in Threads :
                   /\ InstanceOf[t] = i
                   /\ pc[t] = "store"
                   /\ pc'[t] = "load"
                   /\ lang'[i] = tmp[t].top]_vars

\* Thread t called execute with a language of its own, and its provider
\* request went out with the language thread u, still inside its call on
\* the same instance, was called with.
C9_RequestWithOtherCallersLanguage ==
    \E t, u \in Threads :
        /\ t # u
        /\ InstanceOf[t] = InstanceOf[u]
        /\ pc[t] = "idle"
        /\ sent[t] # None
        /\ Truthy(sent[t].override)
        /\ pc[u] \in {"load", "call"}
        /\ Truthy(tmp[u].language)
        /\ tmp[u].language # sent[t].override
        /\ sent[t].language = tmp[u].language

(***************************************************************************)
(* C10.                                                                    *)
(***************************************************************************)
\* The provider call or the POST of the last execute failed in transport.
TransportFailed ==
    IF result.cls \in {"KaldiSTT", "DeepSpeechServerSTT"}
    THEN result.env.post = "fail" /\ result.requests # <<>>
    ELSE result.env.call = "fail"

\* C10: an execute call makes at most one provider request: exactly one POST
\* to the configured uri for Kaldi and for a DeepSpeech call whose language
\* starts with "en"; a request that fails makes execute raise with no second
\* request; nothing but the parse failure of a Kaldi response that arrived
\* is caught, so a Kaldi transport failure raises.
C10_OneRequestFailurePropagates ==
    result.op = "execute"
        => /\ Len(result.requests) <= 1
           /\ (/\ UriConfigured
               /\ \/ result.cls = "KaldiSTT"
                  \/ /\ result.cls = "DeepSpeechServerSTT"
                     /\ English(Resolved(result.language, engine.lang)))
                 => result.requests
                      = <<[api |-> "post", uri |-> engine.config.uri]>>
           /\ TransportFailed
                 => /\ result.kind = "raise"
                    /\ result.err \in {"RequestError", "ConnectionError"}
                    /\ Len(result.requests) = 1
           /\ result.caught
                 => /\ result.cls = "KaldiSTT"
                    /\ result.env.post = "ok"
                    /\ result.requests # <<>>

C10_KaldiTransportFailureRaised ==
    /\ Executed("KaldiSTT")
    /\ result.env = PostFails
    /\ result.kind = "raise"
    /\ result.err = "ConnectionError"
    /\ Len(result.requests) = 1

=============================================================================
